---- MODULE Spec2Model ----
(***************************************************************************)
(* A model of publicsuffix.py: Rule (parsing, ordering, matching) and      *)
(* SuffixList (construction, append/insert, tld/domain/parent/parents).    *)
(*                                                                         *)
(* A Python byte string is a sequence of one-character strings, so that    *)
(* startswith, split, rsplit, slicing, lower and decode are computed on    *)
(* characters as the code computes them.  A call's outcome is a record     *)
(* [tag, val]: tag "val" is a returned value, "None" is Python's None,     *)
(* "StopIteration" an exhausted generator and any other tag the name of    *)
(* the exception the call raised.                                          *)
(***************************************************************************)
EXTENDS Integers, Sequences, FiniteSets, TLC

VARIABLES rules, src, appended, op, arg, res, gen

vars == <<rules, src, appended, op, arg, res, gen>>

(* ------------------------------ bounds --------------------------------- *)

\* Most labels of a host name passed to a resolution call.
MaxHostLabels == 4
\* Most rules in a rule set used for resolution.
MaxRules == 2
\* Longest host name, in characters, passed to Rule.match.
MaxMatchLen == 3
\* Most lines passed to the SuffixList constructor in the construction runs.
MaxInitLines == 1
\* Most rules a rule set grows to by append/insert in the construction runs.
MaxBuildRules == 3

(* --------------------------- call outcomes ----------------------------- *)

Val(v) == [tag |-> "val", val |-> v]

None == [tag |-> "None", val |-> <<>>]

Raise(e) == [tag |-> e, val |-> <<>>]

StopIteration == [tag |-> "StopIteration", val |-> <<>>]

(* --------------------------- Python strings ---------------------------- *)

\* A string is a sequence of characters. The characters of a byte string
\* (str) and of a decoded string (unicode) are the same for ASCII; besides
\* them there are a byte that is not valid UTF-8 (0xFF), the two bytes that
\* encode U+00E9 in UTF-8, taken as one character, and the decoded U+00E9.
BadByte == "<FF>"

NonAsciiBytes == "<C3><A9>"

NonAscii == "U+00E9"

Max(a, b) == IF a >= b THEN a ELSE b

Min(a, b) == IF a <= b THEN a ELSE b

\* s.startswith(p)
startswith(s, p) == Len(s) >= Len(p) /\ SubSeq(s, 1, Len(p)) = p

\* s.find(c) + 1: the first position of character c in s, 0 when absent.
find(s, c) ==
    IF \E i \in 1..Len(s) : s[i] = c
    THEN CHOOSE i \in 1..Len(s) : s[i] = c /\ \A j \in 1..(i - 1) : s[j] # c
    ELSE 0

\* s.rfind(c) + 1: the last position of character c in s, 0 when absent.
rfind(s, c) ==
    IF \E i \in 1..Len(s) : s[i] = c
    THEN CHOOSE i \in 1..Len(s) : s[i] = c /\ \A j \in (i + 1)..Len(s) : s[j] # c
    ELSE 0

\* s.split(): the maximal runs of non-whitespace characters.
RECURSIVE split_ws(_)
split_ws(s) ==
    IF s = <<>> THEN <<>>
    ELSE IF s[1] = " " THEN split_ws(Tail(s))
    ELSE LET n == find(s, " ")
         IN IF n = 0 THEN <<s>>
            ELSE <<SubSeq(s, 1, n - 1)>> \o split_ws(SubSeq(s, n + 1, Len(s)))

\* s.split(sep, maxsplit) for a one-character sep; maxsplit < 0 is no limit.
RECURSIVE split(_, _, _)
split(s, sep, maxsplit) ==
    LET n == find(s, sep)
    IN IF n = 0 \/ maxsplit = 0 THEN <<s>>
       ELSE <<SubSeq(s, 1, n - 1)>>
                \o split(SubSeq(s, n + 1, Len(s)), sep, maxsplit - 1)

\* s.rsplit(sep, maxsplit) for a one-character sep.
RECURSIVE rsplit(_, _, _)
rsplit(s, sep, maxsplit) ==
    LET n == rfind(s, sep)
    IN IF n = 0 \/ maxsplit = 0 THEN <<s>>
       ELSE rsplit(SubSeq(s, 1, n - 1), sep, maxsplit - 1)
                \o <<SubSeq(s, n + 1, Len(s))>>

\* sep.join(parts)
RECURSIVE join(_, _)
join(sep, parts) ==
    IF parts = <<>> THEN <<>>
    ELSE IF Len(parts) = 1 THEN parts[1]
    ELSE parts[1] \o <<sep>> \o join(sep, Tail(parts))

\* tuple(reversed(seq))
reversed(seq) == [i \in 1..Len(seq) |-> seq[Len(seq) + 1 - i]]

lower_char(c) ==
    CASE c = "A" -> "a"
      [] c = "B" -> "b"
      [] OTHER -> c

\* s.lower()
lower(s) == [i \in 1..Len(s) |-> lower_char(s[i])]

\* s[:-k] for k >= 1
drop_last(s, k) == SubSeq(s, 1, Max(0, Len(s) - k))

(* ---------------------------- _normalize ------------------------------- *)

\* seq[-1]
last(seq) == seq[Len(seq)]

decode_char(c) == IF c = NonAsciiBytes THEN NonAscii ELSE c

\* s.decode('utf-8'): of a unicode string, Python 2 first encodes it with the
\* ascii codec; of a str, it decodes the bytes.
decode(s) ==
    IF \E i \in 1..Len(s) : s[i] = NonAscii
    THEN Raise("UnicodeEncodeError")
    ELSE IF \E i \in 1..Len(s) : s[i] = BadByte
    THEN Raise("UnicodeDecodeError")
    ELSE Val([i \in 1..Len(s) |-> decode_char(s[i])])

\* _normalize from s.split()[0] on, toks being s.split().
normalize_tokens(toks) ==
    IF toks = <<>> THEN Raise("IndexError") ELSE decode(lower(toks[1]))

\* _normalize: the outcome of _normalize(s).
normalize(s) ==
    normalize_tokens(split_ws(IF startswith(s, <<".">>) THEN Tail(s) ELSE s))

(* -------------------------------- Rule --------------------------------- *)

\* Rule.__init__ after _normalize, n being its outcome.
Rule_init(is_exception, n) ==
    IF n.tag # "val" THEN n
    ELSE Val([is_exception |-> is_exception,
              labels |-> reversed(split(n.val, ".", -1)),
              s |-> n.val])

\* Rule.__init__: the outcome of Rule(s).
Rule(s) ==
    Rule_init(startswith(s, <<"!">>),
              normalize(IF startswith(s, <<"!">>) THEN Tail(s) ELSE s))

cmp(a, b) == IF a < b THEN -1 ELSE IF a > b THEN 1 ELSE 0

bool_int(b) == IF b THEN 1 ELSE 0

\* Rule.__cmp__
Rule_cmp(self, other) ==
    IF cmp(bool_int(self.is_exception), bool_int(other.is_exception)) = 0
    THEN -1 * cmp(Len(self.labels), Len(other.labels))
    ELSE IF self.is_exception
         THEN (IF other.is_exception THEN 0 ELSE -1)
         ELSE (IF other.is_exception THEN 1 ELSE 0)

\* The for loop of Rule.match from index i on.
RECURSIVE match_loop(_, _, _)
match_loop(self, labels, i) ==
    IF i > Len(labels) THEN TRUE
    ELSE IF i > Len(self.labels) THEN TRUE
    ELSE IF self.labels[i] # <<"*">> /\ labels[i] # self.labels[i] THEN FALSE
    ELSE match_loop(self, labels, i + 1)

\* Rule.match without its length test.
match_labels_no_length_test(self, labels) == Val(match_loop(self, labels, 1))

\* Rule.match from the length test on, labels being the reversed labels of
\* the normalized domain.
match_labels(self, labels) ==
    IF Len(self.labels) > Len(labels) THEN Val(FALSE)
    ELSE Val(match_loop(self, labels, 1))

\* Rule.match after _normalize, n being its outcome.
match_normalized(self, n) ==
    IF n.tag # "val" THEN n
    ELSE match_labels(self, reversed(split(n.val, ".", -1)))

\* Rule.match: the outcome of self.match(domain).
match(self, domain) == match_normalized(self, normalize(domain))

(* ----------------------------- SuffixList ------------------------------ *)

\* list.insert(i, x): a negative i counts from the end, and i is clamped.
list_insert(l, i, x) ==
    SubSeq(l, 1, IF i < 0 THEN Max(0, i + Len(l)) ELSE Min(i, Len(l)))
        \o <<x>>
        \o SubSeq(l, (IF i < 0 THEN Max(0, i + Len(l)) ELSE Min(i, Len(l))) + 1, Len(l))

\* SuffixList.insert once Rule(s) is evaluated, r being its outcome.
insert_rule(self, i, r) ==
    IF r.tag # "val"
    THEN [self |-> self, res |-> r, added |-> FALSE, at |-> i]
    ELSE [self |-> list_insert(self, i, r.val), res |-> None,
          added |-> TRUE, at |-> i]

\* SuffixList.insert: the list afterwards and the call's outcome; added and
\* at tell whether, and at which index, list.insert was called.
insert(self, i, s) ==
    IF s # <<>> /\ ~startswith(s, <<"/", "/">>)
    THEN insert_rule(self, i, Rule(s))
    ELSE [self |-> self, res |-> None, added |-> FALSE, at |-> i]

\* SuffixList.append inserting at the front.
append_at_front(self, s) == insert(self, 0, s)

\* SuffixList.append
append(self, s) == insert(self, Len(self), s)

\* SuffixList.__iadd__ on the list st.self: append every line of seq, up to
\* the first one that raises.  st.src keeps, for every element of the list,
\* the line it was parsed from and the call that added it; st.log keeps the
\* lines that construction and append made rules of, in call order.
RECURSIVE iadd(_, _)
\* One turn of the loop of __iadd__, r being the outcome of self.append(seq[1]).
iadd_step(st, seq, r) ==
    IF r.res.tag # "None"
    THEN [st EXCEPT !.res = r.res]
    ELSE iadd([self |-> r.self,
               src |-> IF r.added
                       THEN list_insert(st.src, r.at,
                                        [line |-> seq[1], via |-> "append"])
                       ELSE st.src,
               log |-> IF r.added THEN Append(st.log, seq[1]) ELSE st.log,
               res |-> None],
              Tail(seq))

iadd(st, seq) ==
    IF seq = <<>> THEN st ELSE iadd_step(st, seq, append(st.self, seq[1]))

\* SuffixList.__init__: SuffixList(seq)
init(seq) == iadd([self |-> <<>>, src |-> <<>>, log |-> <<>>, res |-> None], seq)

\* The place sorted() puts x at in the sorted list out: before the first
\* element that x is less than (Rule.__cmp__ < 0), so that equal elements
\* keep their order.
insort_at(out, x) ==
    IF \E i \in 1..Len(out) : Rule_cmp(x, out[i]) < 0
    THEN CHOOSE i \in 1..Len(out) :
             /\ Rule_cmp(x, out[i]) < 0
             /\ \A j \in 1..(i - 1) : ~(Rule_cmp(x, out[j]) < 0)
    ELSE Len(out) + 1

put_at(out, x, k) == SubSeq(out, 1, k - 1) \o <<x>> \o SubSeq(out, k, Len(out))

insort(out, x) == put_at(out, x, insort_at(out, x))

\* sorted(seq): a new list, stable.
RECURSIVE sorted(_)
sorted(seq) ==
    IF seq = <<>> THEN <<>>
    ELSE insort(sorted(SubSeq(seq, 1, Len(seq) - 1)), seq[Len(seq)])

\* matches[0] of the unsorted matches.
best_match_unsorted(matches) == matches[1]

\* matches[0] in SuffixList.tld, matches being the matching rules in the
\* order of the list: the rule the suffix is cut by.
best_match(matches) == sorted(matches)[1]

\* SuffixList.tld once the rule is chosen.
tld_rule(h, rule) ==
    IF rule.is_exception
    THEN Val(join(".", Tail(rsplit(h, ".", Len(rule.labels) - 1))))
    ELSE IF Len(split(h, ".", -1)) = Len(rule.labels)
    THEN Val(h)
    ELSE Val(join(".", Tail(rsplit(h, ".", Len(rule.labels)))))

\* SuffixList.tld from `if matches` on.
tld_matches(h, matches) ==
    IF matches # <<>> THEN tld_rule(h, best_match(matches))
    ELSE Val(last(rsplit(h, ".", 1)))

\* SuffixList.tld after _normalize, h being the normalized host: r.match(h)
\* raises for the first rule when it raises at all.
tld_normalized(self, h) ==
    IF self # <<>> /\ match(self[1], h).tag # "val"
    THEN match(self[1], h)
    ELSE tld_matches(h, SelectSeq(self, LAMBDA r : match(r, h).val))

\* SuffixList.tld: the outcome of self.tld(host).
tld_outcome(self, n) == IF n.tag # "val" THEN n ELSE tld_normalized(self, n.val)

tld(self, host) == tld_outcome(self, normalize(host))

\* The list self had tld sorted it in place (self.sort()).
self_after_tld_sorting(self) == sorted(self)

\* The list self after a resolution call on it: tld reads self through a
\* generator expression and sorts a copy (sorted), never self.
self_after_tld(self) == self

\* SuffixList.domain once tld is known, t being the outcome of self.tld(h).
domain_tld(h, t) ==
    IF t.tag # "val" THEN t
    ELSE IF h # t.val
    THEN Val(last(rsplit(drop_last(h, Len(t.val) + 1), ".", 1)) \o <<".">> \o t.val)
    ELSE None

domain_outcome(self, n) ==
    IF n.tag # "val" THEN n ELSE domain_tld(n.val, tld(self, n.val))

\* SuffixList.domain: the outcome of self.domain(host).
domain(self, host) == domain_outcome(self, normalize(host))

(* ------------------- SuffixList.iter_parents (generator) ---------------- *)

\* No generator held.
NoGen == [pc |-> "none", host |-> <<>>, domain |-> None, parent |-> <<>>]

\* self.iter_parents(host): a generator object; its body has not run yet.
iter_parents(host) == [pc |-> "start", host |-> host, domain |-> None, parent |-> <<>>]

GenDone(g) == [g EXCEPT !.pc = "done"]

\* The while test of iter_parents with the given parent: yield parent, or
\* leave the loop and yield domain.
gen_while(g, parent) ==
    IF Val(parent) # g.domain
    THEN [gen |-> [g EXCEPT !.pc = "yield_parent", !.parent = parent],
          out |-> Val(parent)]
    ELSE [gen |-> [g EXCEPT !.pc = "yield_domain", !.parent = parent],
          out |-> g.domain]

\* [1] of sp = x.split('.', 1), then the while test.
gen_index(g, sp) ==
    IF Len(sp) < 2 THEN [gen |-> GenDone(g), out |-> Raise("IndexError")]
    ELSE gen_while(g, sp[2])

\* parent = x.split('.', 1)[1], then the while test.
gen_strip(g, x) == gen_index(g, split(x, ".", 1))

\* iter_parents from `if host != domain` on, d being the outcome of
\* self.domain(h).
gen_domain(g, h, d) ==
    IF d.tag \notin {"val", "None"} THEN [gen |-> GenDone(g), out |-> d]
    ELSE IF Val(h) # d
    THEN gen_strip([g EXCEPT !.host = h, !.domain = d], h)
    ELSE [gen |-> GenDone([g EXCEPT !.host = h, !.domain = d]),
          out |-> StopIteration]

\* The first next(g): iter_parents from its first line, n being the outcome
\* of _normalize(host).
gen_start(self, g, n) ==
    IF n.tag # "val" THEN [gen |-> GenDone(g), out |-> n]
    ELSE gen_domain(g, n.val, domain(self, n.val))

\* next(g) on a generator of self.iter_parents: the generator afterwards and
\* what the call produced (a yielded value, StopIteration, or an exception).
gen_next(self, g) ==
    CASE g.pc = "start" -> gen_start(self, g, normalize(g.host))
      [] g.pc = "yield_parent" -> gen_strip(g, g.parent)
      [] OTHER -> [gen |-> GenDone(g), out |-> StopIteration]

\* list(g): every value the generator yields, unless it raises.
RECURSIVE list_of(_, _, _)
list_step(self, acc, r) ==
    IF r.out.tag = "val" THEN list_of(self, r.gen, Append(acc, r.out.val))
    ELSE IF r.out.tag = "StopIteration" THEN Val(acc)
    ELSE r.out

list_of(self, g, acc) == list_step(self, acc, gen_next(self, g))

\* SuffixList.parents
parents(self, host) == list_of(self, iter_parents(host), <<>>)

\* The for loop of SuffixList.parent, r being the first next() of the
\* generator: return what it yields, None when it yields nothing.
parent_first(r) == IF r.out.tag = "StopIteration" THEN None ELSE r.out

\* SuffixList.parent
parent(self, host) == parent_first(gen_next(self, iter_parents(host)))

(* ------------------------------- inputs -------------------------------- *)

\* All strings over the characters cs of length at most n.
Strings(cs, n) == UNION {[1..k -> cs] : k \in 0..n}

\* All sequences over the set S of length at most n.
SeqsUpTo(S, n) == UNION {[1..k -> S] : k \in 0..n}

\* Host names with a character outside ASCII, as UTF-8 byte strings.
NonAsciiHosts == {<<NonAsciiBytes>>, <<NonAsciiBytes, ".", "a">>}

\* Host names given to tld, domain, parent, parents and iter_parents: one to
\* MaxHostLabels labels joined by dots, each label a, B or empty (so that
\* .a, a..a, a. and the empty string are among them), and NonAsciiHosts.
HostLabels == {<<>>, <<"a">>, <<"B">>}

Hosts ==
    {join(".", ls) : ls \in UNION {[1..k -> HostLabels] : k \in 1..MaxHostLabels}}
        \cup NonAsciiHosts

\* Host names given to Rule.match: any text, also with white space.
MatchHosts == Strings({"a", "B", ".", " "}, MaxMatchLen) \cup NonAsciiHosts

\* Rule lines of the rule sets used for resolution:
\* a, b.a, *.a, !b.a, !a
PoolLines ==
    { <<"a">>, <<"b", ".", "a">>, <<"*", ".", "a">>,
      <<"!", "b", ".", "a">>, <<"!", "a">> }

\* Lines given to the constructor, append, insert and Rule in the
\* construction runs: blank, comments, rules, and lines Rule cannot parse.
BuildLines ==
    { <<>>, <<"/", "/">>, <<"/", "/", "a">>,
      <<".", "a">>, <<"!", "a">>, <<"*", ".", "a">>, <<"B", " ", "a">>,
      <<" ">>, <<"!">>, <<".">>, <<"a", BadByte>>, <<NonAsciiBytes>> }

(* ------------------------- resolution: Spec ---------------------------- *)

\* rules is the SuffixList; op, arg and res are the call last made on it, its
\* arguments and its outcome (op "idle": no outcome pending); gen is the
\* iter_parents generator the caller holds; src and appended record where the
\* elements of rules came from (see iadd).

Init ==
    \E seq \in SeqsUpTo(PoolLines, MaxRules) :
        LET st == init(seq)
        IN /\ st.res.tag = "None"
           /\ rules = st.self
           /\ src = st.src
           /\ appended = st.log
           /\ op = "idle"
           /\ arg = [i |-> 0, s |-> <<>>]
           /\ res = None
           /\ gen = NoGen

\* rules[i].match(host)
Match ==
    /\ op = "idle"
    /\ \E i \in 1..Len(rules), host \in MatchHosts :
        /\ op' = "match"
        /\ arg' = [i |-> i, s |-> host]
        /\ res' = match(rules[i], host)
        /\ gen' = NoGen
        /\ UNCHANGED <<rules, src, appended>>

\* rules.tld(host)
Tld ==
    /\ op = "idle"
    /\ \E host \in Hosts :
        /\ op' = "tld"
        /\ arg' = [i |-> 0, s |-> host]
        /\ res' = tld(rules, host)
        /\ rules' = self_after_tld(rules)
        /\ gen' = NoGen
        /\ UNCHANGED <<src, appended>>

\* rules.domain(host)
Domain ==
    /\ op = "idle"
    /\ \E host \in Hosts :
        /\ op' = "domain"
        /\ arg' = [i |-> 0, s |-> host]
        /\ res' = domain(rules, host)
        /\ rules' = self_after_tld(rules)
        /\ gen' = NoGen
        /\ UNCHANGED <<src, appended>>

\* rules.parent(host)
Parent ==
    /\ op = "idle"
    /\ \E host \in Hosts :
        /\ op' = "parent"
        /\ arg' = [i |-> 0, s |-> host]
        /\ res' = parent(rules, host)
        /\ rules' = self_after_tld(rules)
        /\ gen' = NoGen
        /\ UNCHANGED <<src, appended>>

\* rules.parents(host)
Parents ==
    /\ op = "idle"
    /\ \E host \in Hosts :
        /\ op' = "parents"
        /\ arg' = [i |-> 0, s |-> host]
        /\ res' = parents(rules, host)
        /\ rules' = self_after_tld(rules)
        /\ gen' = NoGen
        /\ UNCHANGED <<src, appended>>

\* g = rules.iter_parents(host): a fresh traversal.
IterParents ==
    /\ op = "idle"
    /\ \E host \in Hosts :
        /\ op' = "iter_parents"
        /\ arg' = [i |-> 0, s |-> host]
        /\ res' = None
        /\ gen' = iter_parents(host)
        /\ UNCHANGED <<rules, src, appended>>

\* next(g) on the traversal held.
GenNext ==
    /\ gen.pc # "none"
    /\ LET r == gen_next(rules, gen)
       IN /\ gen' = r.gen
          /\ res' = r.out
    /\ op' = "next"
    /\ rules' = self_after_tld(rules)
    /\ UNCHANGED <<arg, src, appended>>

\* The caller takes the outcome of the call (and drops the traversal it holds,
\* wherever it stands); the next call starts from here.
Return ==
    /\ op # "idle"
    /\ op' = "idle"
    /\ arg' = [i |-> 0, s |-> <<>>]
    /\ res' = None
    /\ gen' = NoGen
    /\ UNCHANGED <<rules, src, appended>>

Next == Return \/ Match \/ Tld \/ Domain \/ Parent \/ Parents \/ IterParents \/ GenNext

Spec == Init /\ [][Next]_vars

(* ----------------------- construction: SpecBuild ----------------------- *)

InitBuild ==
    \E seq \in SeqsUpTo(BuildLines, MaxInitLines) :
        LET st == init(seq)
        IN /\ st.res.tag = "None"
           /\ rules = st.self
           /\ src = st.src
           /\ appended = st.log
           /\ op = "idle"
           /\ arg = [i |-> 0, s |-> <<>>]
           /\ res = None
           /\ gen = NoGen

\* rules.append(s)
AppendLine ==
    /\ op = "idle"
    /\ Len(rules) < MaxBuildRules
    /\ \E s \in BuildLines :
        /\ LET r == append(rules, s)
           IN /\ rules' = r.self
              /\ res' = r.res
              /\ src' = IF r.added
                        THEN list_insert(src, r.at, [line |-> s, via |-> "append"])
                        ELSE src
              /\ appended' = IF r.added THEN Append(appended, s) ELSE appended
        /\ op' = "append"
        /\ arg' = [i |-> 0, s |-> s]
        /\ UNCHANGED gen

\* rules.insert(i, s)
InsertLine ==
    /\ op = "idle"
    /\ Len(rules) < MaxBuildRules
    /\ \E s \in BuildLines, i \in -1..(Len(rules) + 1) :
        /\ LET r == insert(rules, i, s)
           IN /\ rules' = r.self
              /\ res' = r.res
              /\ src' = IF r.added
                        THEN list_insert(src, r.at, [line |-> s, via |-> "insert"])
                        ELSE src
        /\ op' = "insert"
        /\ arg' = [i |-> i, s |-> s]
        /\ UNCHANGED <<appended, gen>>

\* Rule(s)
NewRule ==
    /\ op = "idle"
    /\ \E s \in BuildLines :
        /\ op' = "Rule"
        /\ arg' = [i |-> 0, s |-> s]
        /\ res' = Rule(s)
        /\ UNCHANGED <<rules, src, appended, gen>>

NextBuild == Return \/ AppendLine \/ InsertLine \/ NewRule

SpecBuild == InitBuild /\ [][NextBuild]_vars

(* ------------------------ labels, for the claims ----------------------- *)

\* The positions of the dots of h.
Dots(h) == {i \in 1..Len(h) : h[i] = "."}

\* The number of dot-separated labels of h.
NumLabels(h) == Cardinality(Dots(h)) + 1

\* The position of the i-th dot of h from the right; Len(h) + 1 for i = 0
\* and 0 when h has fewer than i dots.
DotFromRight(h, i) ==
    IF i = 0 THEN Len(h) + 1
    ELSE IF i > Cardinality(Dots(h)) THEN 0
    ELSE CHOOSE p \in Dots(h) : Cardinality({q \in Dots(h) : q > p}) = i - 1

\* The i-th label of h from the right, i in 1..NumLabels(h).
LabelFromRight(h, i) ==
    SubSeq(h, DotFromRight(h, i) + 1, DotFromRight(h, i - 1) - 1)

\* The last k labels of h with their dots: empty for k = 0, all of h when h
\* has at most k labels.
LastLabels(h, k) == SubSeq(h, DotFromRight(h, k) + 1, Len(h))

\* h is made of non-empty dot-separated labels.
WellFormedHost(h) ==
    /\ h # <<>>
    /\ \A i \in 1..NumLabels(h) : LabelFromRight(h, i) # <<>>

\* The rule matches the host h label by label, from the right.
MatchesLabels(rule, h) ==
    /\ NumLabels(h) >= Len(rule.labels)
    /\ \A i \in 1..Len(rule.labels) :
           rule.labels[i] = <<"*">> \/ rule.labels[i] = LabelFromRight(h, i)

\* The rules of rs that match h.
Matching(rs, h) == {i \in 1..Len(rs) : MatchesLabels(rs[i], h)}

\* The best matching rules of rs for h: the exception rules that match when
\* there are any, the others that match otherwise.
BestStatus(rs, h) ==
    {i \in Matching(rs, h) :
        rs[i].is_exception = (\E j \in Matching(rs, h) : rs[j].is_exception)}

\* The greatest number of labels among the best matching rules.
BestLen(rs, h) ==
    CHOOSE n \in {Len(rs[i].labels) : i \in BestStatus(rs, h)} :
        \A i \in BestStatus(rs, h) : Len(rs[i].labels) <= n

\* The public suffix of the normalized host h as C1 states it.
TldByRule(rs, h) ==
    IF Matching(rs, h) = {} THEN LastLabels(h, 1)
    ELSE IF \E j \in Matching(rs, h) : rs[j].is_exception
    THEN LastLabels(h, BestLen(rs, h) - 1)
    ELSE LastLabels(h, BestLen(rs, h))

\* The normalized argument of the call last made.
ArgNorm == normalize(arg.s)

(* -------------------------------- claims ------------------------------- *)

\* C1, on the host names of non-empty labels: tld(h) is the last label of the
\* normalized host when no rule matches, and otherwise the last n-1
\* (exception) or n labels, n the label count of the best matching rule: an
\* exception whenever one matches, and the longest of that status.
C1_TldByBestRule ==
    (op = "tld" /\ WellFormedHost(arg.s) /\ ArgNorm.tag = "val")
        => res = Val(TldByRule(rules, ArgNorm.val))

\* C2, on the host names of non-empty labels: domain(h) is absent exactly
\* when the normalized h equals tld(h); otherwise it is the host label left of
\* the suffix boundary, a dot and tld(h), which is the last k+1 labels of h,
\* k the label count of tld(h).
C2_DomainIsSuffixPlusOneLabel ==
    (op = "domain" /\ WellFormedHost(arg.s) /\ tld(rules, arg.s).tag = "val")
        => /\ (res = None) <=> (ArgNorm.val = tld(rules, arg.s).val)
           /\ ArgNorm.val # tld(rules, arg.s).val
                => /\ res = Val(LabelFromRight(ArgNorm.val,
                                    NumLabels(tld(rules, arg.s).val) + 1)
                                \o <<".">> \o tld(rules, arg.s).val)
                   /\ res = Val(LastLabels(ArgNorm.val,
                                    NumLabels(tld(rules, arg.s).val) + 1))

\* C3, on the host names of non-empty labels: domain is idempotent: when
\* domain(h) is present, domain(domain(h)) is present and equals it.
C3_DomainIdempotent ==
    (op = "domain" /\ WellFormedHost(arg.s) /\ res.tag = "val")
        => domain(rules, res.val) = res

\* The number of leftmost labels to strip from h to reach d; -1 when no
\* stripping reaches it.
StripsTo(h, d) ==
    IF \E j \in 0..(NumLabels(h) - 1) : LastLabels(h, NumLabels(h) - j) = d
    THEN CHOOSE j \in 0..(NumLabels(h) - 1) :
             /\ LastLabels(h, NumLabels(h) - j) = d
             /\ \A k \in 0..(j - 1) : LastLabels(h, NumLabels(h) - k) # d
    ELSE -1

\* h with one to n leftmost labels stripped, most specific first.
Chain(h, n) == [i \in 1..n |-> LastLabels(h, NumLabels(h) - i)]

\* C4, on the host names of non-empty labels: when domain(h) is present,
\* parents(h) is h with one leftmost label stripped, then one more per
\* element, ending with domain(h) (empty when h is domain(h)), and parent(h)
\* is its first element, or absent.
C4_ParentsChainToDomain ==
    (op \in {"parents", "parent"} /\ WellFormedHost(arg.s)
        /\ domain(rules, arg.s).tag = "val")
        => /\ StripsTo(ArgNorm.val, domain(rules, arg.s).val) >= 0
           /\ op = "parents"
                => res = Val(Chain(ArgNorm.val,
                                   StripsTo(ArgNorm.val, domain(rules, arg.s).val)))
           /\ op = "parent"
                => res = IF StripsTo(ArgNorm.val, domain(rules, arg.s).val) = 0
                         THEN None
                         ELSE Val(LastLabels(ArgNorm.val, NumLabels(ArgNorm.val) - 1))

\* C5: on a host of non-empty labels for which domain(h) is absent, tld,
\* domain, parent and parents do not fail, parents(h) is empty and parent(h)
\* is absent.
C5_NoFailureOnPublicSuffix ==
    (op \in {"tld", "domain", "parent", "parents"}
        /\ WellFormedHost(arg.s) /\ domain(rules, arg.s) = None)
        => /\ res.tag \in {"val", "None"}
           /\ op = "parents" => res = Val(<<>>)
           /\ op = "parent" => res = None

\* C6: Rule.match(host) is true exactly when the normalized host has at least
\* as many labels as the rule and every label of the rule, from the right, is
\* '*' or the host's label at that place.
C6_MatchByLabels ==
    (op = "match" /\ ArgNorm.tag = "val")
        => res = Val(MatchesLabels(rules[arg.i], ArgNorm.val))

\* C6 witness: a rule with a wildcard matched a host that normalization
\* changed.
C6_Witness ==
    /\ op = "match"
    /\ res = Val(TRUE)
    /\ \E k \in 1..Len(rules[arg.i].labels) : rules[arg.i].labels[k] = <<"*">>
    /\ ArgNorm.tag = "val"
    /\ ArgNorm.val # arg.s

\* The elements of rules that construction and append added, in list order.
AppendedRules ==
    SelectSeq([i \in 1..Len(rules) |-> [rule |-> rules[i], via |-> src[i].via]],
              LAMBDA e : e.via = "append")

\* C7: every element of the rule set is the Rule parsed from a line, none
\* from an empty line or a '//' line, and the rules of construction and
\* append stand in the order of their lines.
C7_RulesFromAcceptedLinesInOrder ==
    /\ Len(src) = Len(rules)
    /\ \A i \in 1..Len(rules) :
           /\ Rule(src[i].line) = Val(rules[i])
           /\ src[i].line # <<>>
           /\ ~startswith(src[i].line, <<"/", "/">>)
    /\ Len(AppendedRules) = Len(appended)
    /\ \A k \in 1..Len(appended) : Val(AppendedRules[k].rule) = Rule(appended[k])

\* C7 witness: two different appended rules with a rule inserted between them.
C7_Witness ==
    /\ Len(rules) = 3
    /\ src[1].via = "append" /\ src[2].via = "insert" /\ src[3].via = "append"
    /\ rules[1] # rules[3]
    /\ op = "insert"

\* The rule sets holding the rules of rs in any order.
Reorderings(rs) ==
    {[i \in 1..Len(rs) |-> rs[f[i]]] :
        f \in {g \in [1..Len(rs) -> 1..Len(rs)] :
                  \A x, y \in 1..Len(rs) : g[x] = g[y] => x = y}}

\* C8: the order of the rules does not affect resolution: tld, domain and
\* parents give the same outcome on every reordering of the rule set.
C8_OrderIrrelevant ==
    op \in {"tld", "domain", "parents"}
        => \A q \in Reorderings(rules) :
               /\ op = "tld" => res = tld(q, arg.s)
               /\ op = "domain" => res = domain(q, arg.s)
               /\ op = "parents" => res = parents(q, arg.s)

\* C8 witness: tld returned with two different rules matching the host that
\* tie (same exception status, same label count) and are the best.
C8_Witness ==
    /\ op = "tld"
    /\ res.tag = "val"
    /\ ArgNorm.tag = "val"
    /\ \E i, j \in BestStatus(rules, ArgNorm.val) :
           /\ i < j
           /\ rules[i] # rules[j]
           /\ Len(rules[i].labels) = BestLen(rules, ArgNorm.val)
           /\ Len(rules[j].labels) = BestLen(rules, ArgNorm.val)

\* C9: tld, domain, parent, parents and every step of a parents traversal
\* leave the rule set as it was: the same rules in the same order, each with
\* its is_exception flag and labels.
C9_ResolutionReadOnly ==
    [][op' \in {"tld", "domain", "parent", "parents", "iter_parents", "next"}
          => rules' = rules]_vars

\* C9 witness: a traversal towards the registered domain is suspended after
\* the first parent it yielded, on a rule set that is not in sorted order.
C9_Witness ==
    /\ op = "next"
    /\ res.tag = "val"
    /\ gen.pc = "yield_parent"
    /\ gen.domain.tag = "val"
    /\ WellFormedHost(arg.s)
    /\ StripsTo(ArgNorm.val, gen.domain.val) >= 2
    /\ sorted(rules) # rules

\* s without a leading character c.
StripLeading(s, c) == IF s # <<>> /\ s[1] = c THEN Tail(s) ELSE s

\* C10: Rule(pattern) for a pattern that is empty once its leading '!' and
\* '.' are removed yields a rule of one empty label, and Rule fails only on
\* text that cannot be decoded.
C10_EmptyPatternGivesEmptyLabel ==
    op = "Rule"
        => /\ StripLeading(StripLeading(arg.s, "!"), ".") = <<>>
                => /\ res.tag = "val"
                   /\ res.val.labels = << <<>> >>
           /\ res.tag # "val" => res.tag = "UnicodeDecodeError"

====
